---- MODULE Spec2Model ----
(***************************************************************************)
(* Release snapshot cache of hazelArgos (lib/cache.js, lib/platform.js,    *)
(* lib/aliases.js, lib/routes.js).  JavaScript runs one callback at a      *)
(* time: an action of                                                      *)
(* this model is the code that runs between two awaits.  JavaScript        *)
(* objects are functions whose domain is the set of the properties that    *)
(* have been assigned; a property that was never assigned reads as the     *)
(* sentinel Undefined.  File names are sequences of tokens, so that        *)
(* extname/includes/endsWith are computed and not assumed.  Spec and       *)
(* SeqSpec are the cache under overlapping and under consecutive calls of  *)
(* loadCache; CallSpec is one direct call of an exported function with     *)
(* arguments drawn from bounded sets; FairSpec is Spec with every fetch of *)
(* one caller terminating.                                                 *)
(***************************************************************************)
EXTENDS Integers, Sequences, FiniteSets, TLC

\* ------------------------------------------------------------------ bounds
\* The clock is followed over one staleness interval; MaxSkew is the number
\* of single milliseconds it may advance before and after that interval.
MaxSkew == 1
\* MaxNameLen, further down, is the longest file name in tokens.

\* --------------------------------------------------------------- constants
\* { retries: 3 } handed to async-retry: retries AFTER the first attempt.
Retries == 3
\* const { interval = 15 } = config
Interval == 15
\* ms(`${interval}m`): one minute is 60000 ms.
MsPerMinute == 60000
\* Date.now() of the first event of the process (any positive number).
StartTime == 1

Callers == {"a", "b"}

Undefined == "undefined"

\* ---------------------------------------------------------------- helpers
Get(obj, k) == IF k \in DOMAIN obj THEN obj[k] ELSE Undefined
Has(obj, k) == k \in DOMAIN obj
Put(obj, k, v) == [x \in DOMAIN obj \cup {k} |-> IF x = k THEN v ELSE obj[x]]
EmptyObject == [x \in {} |-> Undefined]

\* ------------------------------------------------ lib/platform.js (tokens)
Includes(fileName, tok) == \E i \in DOMAIN fileName : fileName[i] = tok

Dots(fileName) == {i \in DOMAIN fileName : fileName[i] = "."}

LastDot(fileName) == CHOOSE i \in Dots(fileName) : \A j \in Dots(fileName) : j <= i

\* path.extname(fileName).slice(1): the text after the last dot; empty when
\* there is no dot or the only dot is the first character.
ExtName(fileName) ==
  IF Dots(fileName) = {} \/ LastDot(fileName) = 1
    THEN <<>>
    ELSE SubSeq(fileName, LastDot(fileName) + 1, Len(fileName))

\* Faulty variant: aarch64 is not taken for an architecture marker.
Arch_Arm64Only(fileName) ==
  IF Includes(fileName, "arm64") THEN "_arm64" ELSE ""

Arch(fileName) ==
  IF Includes(fileName, "arm64") \/ Includes(fileName, "aarch64") THEN "_arm64" ELSE ""

\* 'darwin' + arch and so on.  NotRecognized is the function's `false`.
NotRecognized == "false"

Key(base, arch) ==
  IF arch = "" THEN base
  ELSE CASE base = "darwin" -> "darwin_arm64"
         [] base = "linux" -> "linux_arm64"
         [] base = "rpm" -> "rpm_arm64"
         [] base = "deb" -> "deb_arm64"
         [] base = "win32" -> "win32_arm64"
         [] base = "exe" -> "exe_arm64"

\* Faulty variant: the installer rule appends the architecture suffix too.
checkPlatform_ExeWithArch(fileName) ==
  LET extension == ExtName(fileName)
      arch == Arch(fileName)
  IN  IF extension = <<"dmg">> THEN Key("darwin", arch)
      ELSE IF extension = <<"AppImage">> THEN Key("linux", arch)
      ELSE IF (Includes(fileName, "mac") \/ Includes(fileName, "darwin"))
               /\ extension = <<"zip">> THEN Key("darwin", arch)
      ELSE IF extension = <<"exe">> THEN Key("win32", arch)
      ELSE IF extension \in {<<"rpm">>, <<"deb">>} THEN Key(extension[1], arch)
      ELSE NotRecognized

checkPlatform(fileName) ==
  LET extension == ExtName(fileName)
      arch == Arch(fileName)
  IN  IF extension = <<"dmg">> THEN Key("darwin", arch)
      ELSE IF extension = <<"AppImage">> THEN Key("linux", arch)
      ELSE IF (Includes(fileName, "mac") \/ Includes(fileName, "darwin"))
               /\ extension = <<"zip">> THEN Key("darwin", arch)
      ELSE IF extension = <<"exe">> THEN "win32"
      ELSE IF extension \in {<<"rpm">>, <<"deb">>} THEN Key(extension[1], arch)
      ELSE NotRecognized

\* ----------------------------------------------------------- lib/aliases.js
\* The object literal of the alias table, in the order of its properties
\* (Object.keys keeps the order of insertion).
AliasLiteral ==
  << [key |-> "darwin", list |-> <<"mac", "macos", "osx", "dmg">>],
     [key |-> "win32",  list |-> <<"windows", "win", "exe">>],
     [key |-> "linux",  list |-> <<"AppImage", "appimage">>],
     [key |-> "deb",    list |-> <<"debian">>],
     [key |-> "rpm",    list |-> <<"fedora">>],
     [key |-> "exe",    list |-> <<"win32", "windows", "win">>] >>

\* existingPlatform + '_arm64' and `${alias}_arm64` on the words of the table.
Arm64(word) ==
  CASE word = "darwin"   -> "darwin_arm64"
    [] word = "win32"    -> "win32_arm64"
    [] word = "linux"    -> "linux_arm64"
    [] word = "deb"      -> "deb_arm64"
    [] word = "rpm"      -> "rpm_arm64"
    [] word = "exe"      -> "exe_arm64"
    [] word = "mac"      -> "mac_arm64"
    [] word = "macos"    -> "macos_arm64"
    [] word = "osx"      -> "osx_arm64"
    [] word = "dmg"      -> "dmg_arm64"
    [] word = "windows"  -> "windows_arm64"
    [] word = "win"      -> "win_arm64"
    [] word = "AppImage" -> "AppImage_arm64"
    [] word = "appimage" -> "appimage_arm64"
    [] word = "debian"   -> "debian_arm64"
    [] word = "fedora"   -> "fedora_arm64"

\* The table after the loop that adds, for every key of the literal, the key
\* and its aliases with the suffix.
aliases ==
  AliasLiteral \o
  [i \in DOMAIN AliasLiteral |->
     [key |-> Arm64(AliasLiteral[i].key),
      list |-> [j \in DOMAIN AliasLiteral[i].list |-> Arm64(AliasLiteral[i].list[j])]]]

\* The table is a plain object: aliases[platform] is also defined for the
\* property names every object inherits from Object.prototype.
ObjectPrototype ==
  {"constructor", "toString", "toLocaleString", "valueOf", "hasOwnProperty",
   "isPrototypeOf", "propertyIsEnumerable", "__proto__"}

OwnKey(platform) == \E i \in DOMAIN aliases : aliases[i].key = platform
Lists(platform) ==
  {i \in DOMAIN aliases : \E j \in DOMAIN aliases[i].list : aliases[i].list[j] = platform}

\* Faulty variant: the scan of the alias lists comes before the own-key test.
checkAlias_ListsFirst(platform) ==
  IF Lists(platform) /= {}
    THEN aliases[CHOOSE i \in Lists(platform) : \A j \in Lists(platform) : i <= j].key
  ELSE IF OwnKey(platform) \/ platform \in ObjectPrototype THEN platform
  ELSE NotRecognized

\* Faulty variant: the scan keeps the last key whose list has the token.
checkAlias_LastOwner(platform) ==
  IF OwnKey(platform) \/ platform \in ObjectPrototype THEN platform
  ELSE IF Lists(platform) /= {}
    THEN aliases[CHOOSE i \in Lists(platform) : \A j \in Lists(platform) : j <= i].key
  ELSE NotRecognized

\* module.exports of lib/aliases.js.
checkAlias(platform) ==
  IF OwnKey(platform) \/ platform \in ObjectPrototype THEN platform
  ELSE IF Lists(platform) /= {}
    THEN aliases[CHOOSE i \in Lists(platform) : \A j \in Lists(platform) : i <= j].key
  ELSE NotRecognized

\* ------------------------------------------------------- the upstream host
\* What the release host can answer.  A release is the JSON object of the
\* GitHub API as refreshCache reads it (tag_name, body, published_at, draft,
\* prerelease, assets); an asset has name, browser_download_url, url,
\* content_type and size.
DmgName == <<"App", ".", "dmg">>
MacZipName == <<"App", "-", "mac", ".", "zip">>
ArmImageName == <<"App", "-", "arm64", ".", "AppImage">>
ImageName == <<"App", ".", "AppImage">>
ExeName == <<"App", "-", "Setup", ".", "exe">>
TxtName == <<"notes", ".", "txt">>
ReleasesName == <<"RELEASES">>
MacYmlName == <<"latest", "-", "mac", ".", "yml">>
LinuxYmlName == <<"latest", "-", "linux", ".", "yml">>
WinYmlName == <<"latest", ".", "yml">>
\* A manifest of another name: electron-builder writes the Linux arm64 one so.
LinuxArmYmlName == <<"latest", "-", "linux", "-", "arm64", ".", "yml">>
ManifestNames == {MacYmlName, LinuxYmlName, WinYmlName}

DownloadUrl(tag, name) == [kind |-> "download", tag |-> tag, file |-> name]
ApiUrl(tag, name) == [kind |-> "api", tag |-> tag, file |-> name]

Asset(tag, name, type, bytes) ==
  [name |-> name, browser_download_url |-> DownloadUrl(tag, name),
   url |-> ApiUrl(tag, name), content_type |-> type, size |-> bytes]

Release(tag, draft, prerelease, assets) ==
  [tag_name |-> tag, body |-> <<"notes of", tag>>, published_at |-> <<"date of", tag>>,
   draft |-> draft, prerelease |-> prerelease, assets |-> assets]

R1 ==
  Release("v1", FALSE, FALSE,
          << Asset("v1", TxtName, "text/plain", 10),
             Asset("v1", ReleasesName, "application/octet-stream", 80),
             Asset("v1", DmgName, "application/x-apple-diskimage", 84560000),
             Asset("v1", MacYmlName, "text/yaml", 500) >>)

R2 ==
  Release("v2", FALSE, FALSE,
          << Asset("v2", MacZipName, "application/zip", 90140000),
             Asset("v2", ArmImageName, "application/octet-stream", 120000000),
             Asset("v2", LinuxArmYmlName, "text/yaml", 500),
             Asset("v2", DmgName, "application/x-apple-diskimage", 91250000) >>)

P1 ==
  Release("v3-beta", FALSE, TRUE,
          << Asset("v3-beta", ExeName, "application/octet-stream", 60049999),
             Asset("v3-beta", ImageName, "application/octet-stream", 70000000),
             Asset("v3-beta", LinuxYmlName, "text/yaml", 500),
             Asset("v3-beta", WinYmlName, "text/yaml", 500) >>)

D1 == Release("v4-draft", TRUE, FALSE, << Asset("v4-draft", DmgName, "application/x-apple-diskimage", 1) >>)

DP == Release("v5-draft-beta", TRUE, TRUE, << Asset("v5-draft-beta", ExeName, "application/octet-stream", 1) >>)

\* A release object without the assets property.
B1 ==
  [tag_name |-> "v6-bare", body |-> <<"notes of", "v6-bare">>,
   published_at |-> <<"date of", "v6-bare">>, draft |-> FALSE, prerelease |-> TRUE]

Catalogue == {R1, R2, P1, D1, DP, B1}

\* A JSON answer that is not an array (an error object of the API).  It is
\* told from the lists by IsArray only; nothing reads its element.
NotAnArray == << [message |-> "Not Found"] >>

\* The release lists the host answers with, in the order it returns them.
UpstreamLists == { <<>>, <<D1, P1, R1>>, <<DP, R2, B1, P1, R1>>, NotAnArray }

\* The manifest documents and the RELEASES file behind the download urls.
ManifestEntry(name, sha, blockMapSize) ==
  [url |-> name, sha512 |-> sha, blockMapSize |-> blockMapSize]

\* An entry of files that is null (a dash with nothing after it).
NullEntry == [null |-> TRUE]

ManifestText(entries) == [kind |-> "yaml", files |-> entries]
MalformedText == [kind |-> "malformed", files |-> <<>>]
\* The body of a 404 answer: yaml.load makes a string of it, without files.
NotFoundText == [kind |-> "scalar", files |-> <<>>]

HostedManifest(url) ==
  CASE url.tag = "v1" /\ url.file = MacYmlName ->
         ManifestText(<< ManifestEntry(DmgName, "sha-v1-dmg", 0) >>)
    [] url.tag = "v2" /\ url.file = LinuxArmYmlName ->
         ManifestText(<< ManifestEntry(ArmImageName, "sha-v2-img", 123456),
                         ManifestEntry(TxtName, "sha-v2-txt", 1) >>)
    [] url.tag = "v3-beta" /\ url.file = LinuxYmlName ->
         ManifestText(<< ManifestEntry(ImageName, "sha-v3-img", 654321), NullEntry >>)
    [] url.tag = "v3-beta" /\ url.file = WinYmlName ->
         ManifestText(<< ManifestEntry(ExeName, "sha-v3-exe", 0) >>)
    [] OTHER -> MalformedText

\* The lines of a RELEASES file: the package file each line names.
HostedReleases(url) ==
  IF url.tag = "v1" THEN << <<"app-1.0.0-full", ".", "nupkg">> >> ELSE <<>>

\* ------------------------------------------------------------ lib/cache.js
VARIABLES
  now,         \* Date.now()
  pre,         \* Boolean(config.pre)
  upstream,    \* the release list the host answers with at this moment
  latest,      \* this.latest
  lastUpdate,  \* this.lastUpdate; 0 is the falsy null of the constructor
  pc,          \* where each loadCache call is
  tries,       \* fetches issued so far by the retry of the release list
  relTries,    \* fetches issued by the cycle's cacheReleaseList call
  rel,         \* the release the cycle selected
  idx,         \* the asset the cycle's for-loop is at
  yamlFiles,   \* the cycle's local yamlFiles object
  input,       \* the last direct call of an exported function: its arguments
  output       \* what that call returned

vars == <<now, pre, upstream, latest, lastUpdate, pc, tries, relTries, rel, idx, yamlFiles,
          input, output>>

\* No exported function has been called directly yet.
NoCall == [fn |-> "none"]
NoReturn == [returned |-> FALSE]

NoRelease == Release(Undefined, FALSE, FALSE, <<>>)

\* Where a loadCache call can be.  In flight: "list" (the release-list fetch
\* of lines 91-104), "releases" (line 149), "yml" (line 161).  Settled:
\* "idle" (not called), "rejected" (the retry of line 91 rethrew and the
\* promise of loadCache rejected), and the four ways it returns the
\* snapshot: "fresh" (no refresh), "noop" (refreshCache returned at line
\* 109 or 118), "same" (line 126), "done" (line 262).
InFlight == {"list", "releases", "yml"}
Returned == {"fresh", "noop", "same", "done"}
Settled == {"idle", "rejected"} \cup Returned

\* ms(`${interval}m`)
Ttl == Interval * MsPerMinute

\* Faulty variant: the interval counts as over one millisecond early.
isOutdated_AtLeast == lastUpdate /= 0 /\ now - lastUpdate >= Ttl

\* isOutdated(): lastUpdate && Date.now() - lastUpdate > ms(...)
isOutdated == lastUpdate /= 0 /\ now - lastUpdate > Ttl

\* loadCache's test: !lastUpdate || isOutdated()
NeedsRefresh == lastUpdate = 0 \/ isOutdated

\* Faulty variant: the draft flag is not looked at.
Matches_IgnoresDraft(item) == pre = item.prerelease

\* data.find(item => Boolean(pre) === Boolean(item.prerelease) && !item.draft)
Matches(item) == (pre = item.prerelease) /\ ~item.draft

\* Array.isArray(data)
IsArray(data) == data /= NotAnArray

\* release && release.assets && Array.isArray(release.assets)
Applicable(release) == release /= NoRelease /\ Has(release, "assets")

FindRelease(data) ==
  IF \E i \in DOMAIN data : Matches(data[i])
    THEN data[CHOOSE i \in DOMAIN data :
                Matches(data[i]) /\ \A j \in 1..(i - 1) : ~Matches(data[j])]
    ELSE NoRelease

\* size: Math.round(size / 1000000 * 10) / 10, kept in tenths of a megabyte.
RoundedSize(bytes) == (bytes + 50000) \div 100000

PlatformAsset(asset) ==
  [name |-> asset.name, api_url |-> asset.url, url |-> asset.browser_download_url,
   content_type |-> asset.content_type, size |-> RoundedSize(asset.size)]

EndsWithYml(name) ==
  Len(name) >= 2 /\ name[Len(name) - 1] = "." /\ name[Len(name)] = "yml"

\* Faulty variant: the short-circuit is never taken.
SameVersion_Never(lat, release) == FALSE

\* The short-circuit test of line 123: this.latest.version === tag_name
SameVersion(lat, release) == Get(lat, "version") = release.tag_name

\* Lines 121-139 past the short-circuit test: the new version, notes and
\* date are written into this.latest and its platform map is emptied.
BeginSnapshot(lat, release) ==
  Put(Put(Put(Put(lat, "version", release.tag_name), "notes", release.body),
          "pub_date", release.published_at), "platforms", EmptyObject)

\* Faulty variant: an asset does not replace the asset its key already has.
RECURSIVE RunAssets_FirstWins(_, _, _)
RunAssets_FirstWins(lat, assets, i) ==
  IF i > Len(assets) THEN [latest |-> lat, idx |-> i, at |-> "end"]
  ELSE LET name == assets[i].name
           platform == checkPlatform(name)
       IN  IF name = ReleasesName
             THEN [latest |-> IF Has(lat, "files") THEN lat ELSE Put(lat, "files", EmptyObject),
                   idx |-> i, at |-> "releases"]
           ELSE IF EndsWithYml(name)
             THEN [latest |-> lat, idx |-> i, at |-> "yml"]
           ELSE IF platform = NotRecognized \/ Has(lat["platforms"], platform)
             THEN RunAssets_FirstWins(lat, assets, i + 1)
           ELSE RunAssets_FirstWins(Put(lat, "platforms",
                                        Put(lat["platforms"], platform, PlatformAsset(assets[i]))),
                                    assets, i + 1)

\* The for-loop over release.assets from asset i up to its next await (the
\* RELEASES fetch or a manifest fetch) or its end.
RECURSIVE RunAssets(_, _, _)
RunAssets(lat, assets, i) ==
  IF i > Len(assets) THEN [latest |-> lat, idx |-> i, at |-> "end"]
  ELSE LET name == assets[i].name
           platform == checkPlatform(name)
       IN  IF name = ReleasesName
             THEN [latest |-> IF Has(lat, "files") THEN lat ELSE Put(lat, "files", EmptyObject),
                   idx |-> i, at |-> "releases"]
           ELSE IF EndsWithYml(name)
             THEN [latest |-> lat, idx |-> i, at |-> "yml"]
           ELSE IF platform = NotRecognized
             THEN RunAssets(lat, assets, i + 1)
           ELSE RunAssets(Put(lat, "platforms",
                              Put(lat["platforms"], platform, PlatformAsset(assets[i]))),
                          assets, i + 1)

\* cacheReleaseList past its fetch: every *.nupkg reference of the content
\* becomes the download url with RELEASES replaced by it.
IsNupkg(line) == Len(line) >= 2 /\ line[Len(line) - 1] = "." /\ line[Len(line)] = "nupkg"

HasNupkg(content) == \E i \in DOMAIN content : IsNupkg(content[i])

cacheReleaseList(url, content) ==
  [i \in DOMAIN content |->
     IF IsNupkg(content[i]) THEN DownloadUrl(url.tag, content[i]) ELSE content[i]]

\* Faulty variant: every manifest writes the block-map size.
Decorate_AlwaysBlockMap(platforms, file, withBlockMap) ==
  [k \in DOMAIN platforms |->
     IF platforms[k].name = file.url
       THEN Put(Put(platforms[k], "sha512", file.sha512), "blockMapSize", file.blockMapSize)
       ELSE platforms[k]]

\* The inner loop over Object.entries(this.latest.platforms): the entry whose
\* name is the manifest entry's url gets the checksum (one name has one key).
Decorate(platforms, file, withBlockMap) ==
  [k \in DOMAIN platforms |->
     IF platforms[k].name = file.url
       THEN IF withBlockMap
              THEN Put(Put(platforms[k], "sha512", file.sha512),
                       "blockMapSize", file.blockMapSize)
              ELSE Put(platforms[k], "sha512", file.sha512)
       ELSE platforms[k]]

\* file.url of a null entry throws.
Readable(file) == Has(file, "url")

\* for (const file of doc.files) inside the try: the entries are applied one
\* after the other, and an entry that cannot be read ends the loop in the
\* catch with the platforms as the entries before it left them.
RECURSIVE ApplyEntries(_, _, _, _)
ApplyEntries(platforms, files, i, withBlockMap) ==
  IF i > Len(files) THEN platforms
  ELSE IF ~Readable(files[i]) THEN platforms
  ELSE ApplyEntries(Decorate(platforms, files[i], withBlockMap), files, i + 1, withBlockMap)

\* One try block of lines 192-258: yaml.load throws on malformed text and
\* the catch leaves the platforms as they are; a document without files
\* is passed over.
ApplyManifest(platforms, yf, name, withBlockMap) ==
  IF ~Has(yf, name) \/ yf[name].kind /= "yaml" THEN platforms
  ELSE ApplyEntries(platforms, yf[name].files, 1, withBlockMap)

\* Lines 185-259: the manifests are stored and applied to the platforms.
ApplyYamlFiles(lat, yf) ==
  IF DOMAIN yf = {} THEN lat
  ELSE LET files == Put(IF Has(lat, "files") THEN lat["files"] ELSE EmptyObject,
                        "yamlFiles", yf)
           mac == ApplyManifest(lat["platforms"], yf, MacYmlName, FALSE)
           linux == ApplyManifest(mac, yf, LinuxYmlName, TRUE)
           win == ApplyManifest(linux, yf, WinYmlName, FALSE)
       IN  Put(Put(lat, "files", files), "platforms", win)

\* --------------------------------------------------------------- the state
Init ==
  /\ now = StartTime
  /\ pre \in BOOLEAN
  /\ upstream \in UpstreamLists
  /\ latest = EmptyObject
  /\ lastUpdate = 0
  /\ pc = [p \in Callers |-> "idle"]
  /\ tries = [p \in Callers |-> 0]
  /\ relTries = [p \in Callers |-> 0]
  /\ rel = [p \in Callers |-> NoRelease]
  /\ idx = [p \in Callers |-> 0]
  /\ yamlFiles = [p \in Callers |-> EmptyObject]
  /\ input = NoCall
  /\ output = NoReturn

\* Time passes: a millisecond, or a whole staleness interval.
Tick ==
  /\ \E d \in {1, Ttl} :
       /\ now + d <= StartTime + Ttl + MaxSkew
       /\ d = 1 => (now - StartTime) % Ttl < MaxSkew
       /\ now' = now + d
  /\ UNCHANGED <<pre, upstream, latest, lastUpdate, pc, tries, relTries, rel, idx, yamlFiles, input, output>>

\* The maintainers publish, retract or draft releases.
Publish ==
  /\ \E list \in UpstreamLists \ {upstream} : upstream' = list
  /\ UNCHANGED <<now, pre, latest, lastUpdate, pc, tries, relTries, rel, idx, yamlFiles, input, output>>

\* refreshCache resolves and loadCache returns Object.assign({}, latest): the
\* continuation of loadCache is a microtask of the same callback, so no other
\* call runs between the two and the caller receives lat.
Return(p, lat, line) ==
  /\ latest' = lat
  /\ pc' = [pc EXCEPT ![p] = line]
  /\ rel' = [rel EXCEPT ![p] = NoRelease]
  /\ idx' = [idx EXCEPT ![p] = 0]
  /\ relTries' = [relTries EXCEPT ![p] = 0]
  /\ yamlFiles' = [yamlFiles EXCEPT ![p] = EmptyObject]

\* The cycle of p goes on from asset i: to the next await of the for-loop,
\* or through lines 185-262 to the end of refreshCache.
Proceed(p, release, lat, yf, i) ==
  LET r == RunAssets(lat, release.assets, i)
  IN  IF r.at = "end"
        THEN /\ Return(p, ApplyYamlFiles(r.latest, yf), "done")
             /\ lastUpdate' = now
        ELSE /\ latest' = r.latest
             /\ pc' = [pc EXCEPT ![p] = r.at]
             /\ rel' = [rel EXCEPT ![p] = release]
             /\ idx' = [idx EXCEPT ![p] = r.idx]
             /\ relTries' = [relTries EXCEPT ![p] = IF r.at = "releases" THEN 1 ELSE 0]
             /\ yamlFiles' = [yamlFiles EXCEPT ![p] = yf]
             /\ UNCHANGED lastUpdate

\* loadCache is called: lines 279-287 and, on a stale cache, refreshCache up
\* to its first fetch.  A fresh cache is returned in the same callback.
loadCache(p) ==
  /\ pc[p] \in Settled
  /\ tries' = [tries EXCEPT ![p] = IF NeedsRefresh THEN 1 ELSE 0]
  /\ pc' = [pc EXCEPT ![p] = IF NeedsRefresh THEN "list" ELSE "fresh"]
  /\ UNCHANGED <<now, pre, upstream, latest, lastUpdate, relTries, rel, idx, yamlFiles, input, output>>

\* Faulty variant: the staleness clock is advanced when the retries are used up.
ListFail_AdvancesClock(p) ==
  /\ pc[p] = "list"
  /\ IF tries[p] <= Retries
       THEN /\ tries' = [tries EXCEPT ![p] = @ + 1]
            /\ pc' = pc
            /\ lastUpdate' = lastUpdate
       ELSE /\ pc' = [pc EXCEPT ![p] = "rejected"]
            /\ tries' = tries
            /\ lastUpdate' = now
  /\ UNCHANGED <<now, pre, upstream, latest, relTries, rel, idx, yamlFiles, input, output>>

\* Faulty variant: retry starts over when its retries are used up.
ListFail_RetriesForever(p) ==
  /\ pc[p] = "list"
  /\ tries' = [tries EXCEPT ![p] = IF @ <= Retries THEN @ + 1 ELSE 1]
  /\ pc' = pc
  /\ UNCHANGED <<now, pre, upstream, latest, lastUpdate, relTries, rel, idx, yamlFiles, input, output>>

\* Faulty variant: the option is taken as the number of attempts.
ListFail_ThreeAttempts(p) ==
  /\ pc[p] = "list"
  /\ IF tries[p] < Retries
       THEN /\ tries' = [tries EXCEPT ![p] = @ + 1]
            /\ pc' = pc
       ELSE /\ pc' = [pc EXCEPT ![p] = "rejected"]
            /\ tries' = tries
  /\ UNCHANGED <<now, pre, upstream, latest, lastUpdate, relTries, rel, idx, yamlFiles, input, output>>

\* A release-list fetch fails (status other than 200, or no answer): retry
\* issues the next attempt, or rethrows once its retries are used up and
\* loadCache rejects.
ListFail(p) ==
  /\ pc[p] = "list"
  /\ IF tries[p] <= Retries
       THEN /\ tries' = [tries EXCEPT ![p] = @ + 1]
            /\ pc' = pc
       ELSE /\ pc' = [pc EXCEPT ![p] = "rejected"]
            /\ tries' = tries
  /\ UNCHANGED <<now, pre, upstream, latest, lastUpdate, relTries, rel, idx, yamlFiles, input, output>>

\* Faulty variant: a cycle without an applicable release stamps lastUpdate.
ListOk_StampsNoop(p) ==
  /\ pc[p] = "list"
  /\ LET data == upstream
     IN  IF ~IsArray(data) \/ data = <<>> \/ ~Applicable(FindRelease(data))
           THEN /\ Return(p, latest, "noop")
                /\ lastUpdate' = now
         ELSE IF SameVersion(latest, FindRelease(data))
           THEN /\ Return(p, latest, "same")
                /\ lastUpdate' = now
         ELSE Proceed(p, FindRelease(data), BeginSnapshot(latest, FindRelease(data)), EmptyObject, 1)
  /\ tries' = [tries EXCEPT ![p] = 0]
  /\ UNCHANGED <<now, pre, upstream, input, output>>

\* The release list arrives with status 200 and response.json() gives the
\* list the host answered with (nothing shared is read between these two
\* awaits): lines 106-139 and the for-loop up to its first await.
ListOk(p) ==
  /\ pc[p] = "list"
  /\ LET data == upstream
     IN  IF ~IsArray(data) \/ data = <<>> \/ ~Applicable(FindRelease(data))
           THEN /\ Return(p, latest, "noop")
                /\ UNCHANGED lastUpdate
         ELSE IF SameVersion(latest, FindRelease(data))
           THEN /\ Return(p, latest, "same")
                /\ lastUpdate' = now
         ELSE Proceed(p, FindRelease(data), BeginSnapshot(latest, FindRelease(data)), EmptyObject, 1)
  /\ tries' = [tries EXCEPT ![p] = 0]
  /\ UNCHANGED <<now, pre, upstream, input, output>>

\* Faulty variant: no try/catch around cacheReleaseList, its error ends the cycle.
ReleasesFail_Aborts(p) ==
  /\ pc[p] = "releases"
  /\ IF relTries[p] <= Retries
       THEN /\ relTries' = [relTries EXCEPT ![p] = @ + 1]
            /\ pc' = pc
       ELSE /\ pc' = [pc EXCEPT ![p] = "rejected"]
            /\ relTries' = [relTries EXCEPT ![p] = 0]
  /\ UNCHANGED <<now, pre, upstream, tries, latest, lastUpdate, rel, idx, yamlFiles, input, output>>

\* A fetch of cacheReleaseList fails: retry, or the error reaches the catch
\* of line 152 and the for-loop continues.
ReleasesFail(p) ==
  /\ pc[p] = "releases"
  /\ IF relTries[p] <= Retries
       THEN /\ relTries' = [relTries EXCEPT ![p] = @ + 1]
            /\ UNCHANGED <<latest, lastUpdate, pc, rel, idx, yamlFiles>>
       ELSE Proceed(p, rel[p], latest, yamlFiles[p], idx[p] + 1)
  /\ UNCHANGED <<now, pre, upstream, tries, input, output>>

\* The RELEASES file arrives and convertStream gives its content: it is
\* rewritten and stored, or holds no nupkg reference (match gives null,
\* matches.length throws) and the error reaches the catch of line 152.
ReleasesOk(p) ==
  /\ pc[p] = "releases"
  /\ LET url == rel[p].assets[idx[p]].browser_download_url
     IN  \E content \in {HostedReleases(url), <<>>} :
           Proceed(p, rel[p],
                   IF HasNupkg(content)
                     THEN Put(latest, "files",
                              Put(latest["files"], "RELEASES", cacheReleaseList(url, content)))
                     ELSE latest,
                   yamlFiles[p], idx[p] + 1)
  /\ UNCHANGED <<now, pre, upstream, tries, input, output>>

\* The fetch of a manifest fails: the catch of line 164.
YmlFail(p) ==
  /\ pc[p] = "yml"
  /\ Proceed(p, rel[p], latest, yamlFiles[p], idx[p] + 1)
  /\ UNCHANGED <<now, pre, upstream, tries, input, output>>

\* The text of a manifest arrives (well-formed or not) and is held aside.
YmlOk(p) ==
  /\ pc[p] = "yml"
  /\ LET asset == rel[p].assets[idx[p]]
     IN  \E text \in {HostedManifest(asset.browser_download_url), MalformedText, NotFoundText} :
           Proceed(p, rel[p], latest, Put(yamlFiles[p], asset.name, text), idx[p] + 1)
  /\ UNCHANGED <<now, pre, upstream, tries, input, output>>

Next ==
  \/ Tick
  \/ Publish
  \/ \E p \in Callers : loadCache(p)
  \/ \E p \in Callers : ListFail(p)
  \/ \E p \in Callers : ListOk(p)
  \/ \E p \in Callers : ReleasesFail(p)
  \/ \E p \in Callers : ReleasesOk(p)
  \/ \E p \in Callers : YmlFail(p)
  \/ \E p \in Callers : YmlOk(p)

Spec == Init /\ [][Next]_vars

\* The same program when its callers never overlap: loadCache is called
\* only while no other call is in flight.
loadCacheAlone(p) ==
  /\ \A q \in Callers : pc[q] \notin InFlight
  /\ loadCache(p)

SeqNext ==
  \/ Tick
  \/ Publish
  \/ \E p \in Callers : loadCacheAlone(p)
  \/ \E p \in Callers : ListFail(p)
  \/ \E p \in Callers : ListOk(p)
  \/ \E p \in Callers : ReleasesFail(p)
  \/ \E p \in Callers : ReleasesOk(p)
  \/ \E p \in Callers : YmlFail(p)
  \/ \E p \in Callers : YmlOk(p)

SeqSpec == Init /\ [][SeqNext]_vars

\* The overlapping calls when every fetch attempt of one call, the call of
\* caller a, ends (with an answer or with a failure); the fetches of the
\* other caller may stay without an answer for ever.
FetchEnds(p) ==
  \/ ListFail(p)
  \/ ListOk(p)
  \/ ReleasesFail(p)
  \/ ReleasesOk(p)
  \/ YmlFail(p)
  \/ YmlOk(p)

FairSpec == Spec /\ WF_vars(FetchEnds("a"))

\* -------------------------------------------------- the exported functions
\* The functions the modules export, called directly: the file-name
\* normalizer (lib/platform.js), the alias resolver (lib/aliases.js), the
\* manifest part of refreshCache on a platform map, and the handlers of
\* lib/routes.js on the snapshot loadCache gave them.  input holds the
\* arguments of the last call, output what it returned.

\* Longest file name, in tokens, handed to the normalizer.
MaxNameLen == 3

NameTokens ==
  {"App", ".", "arm64", "aarch64", "mac", "darwin", "dmg", "AppImage", "appimage",
   "zip", "exe", "deb", "rpm", "txt"}

FileNames == UNION {[1..n -> NameTokens] : n \in 1..MaxNameLen}

\* Keys of the alias table, their aliases, inherited property names and
\* words the table does not know.
TableWords ==
  {aliases[i].key : i \in DOMAIN aliases}
    \cup UNION {{aliases[i].list[j] : j \in DOMAIN aliases[i].list} : i \in DOMAIN aliases}

PlatformWords ==
  TableWords \cup ObjectPrototype
    \cup {"", "Darwin", "MAC", "solaris", "freebsd", "arm64", "_arm64", "mac_x64", "ubuntu",
          "linux_x64", "darwin_aarch64"}

\* Platform maps a refresh can have built before it turns to the manifests:
\* three assets under their keys, each perhaps with a checksum from a
\* manifest handled earlier in the same cycle.
SamplePlatforms ==
  [k \in {"darwin", "linux_arm64", "win32"} |->
     PlatformAsset(Asset("v2", CASE k = "darwin" -> DmgName
                                 [] k = "linux_arm64" -> ArmImageName
                                 [] k = "win32" -> ExeName,
                         "application/octet-stream", 91250000))]

PlatformMaps ==
  {[k \in S |-> IF k \in T THEN Put(SamplePlatforms[k], "sha512", "sha-earlier")
                ELSE SamplePlatforms[k]] :
     S \in SUBSET DOMAIN SamplePlatforms, T \in SUBSET {"darwin"}}

ManifestEntries ==
  {ManifestEntry(name, sha, 4096) :
     name \in {DmgName, ArmImageName, ExeName, TxtName, <<>>}, sha \in {"sha-a", "sha-b"}}

\* ------------------------------------------------------- lib/routes.js
\* The handlers, from the snapshot loadCache returned to the response.  A
\* response records the key the handler indexed the platform map with.

\* platforms[platform] of a plain object: own keys, and the property names
\* every object inherits, whose value has no url.
Own(platforms, platform) == platform \in DOMAIN platforms
Found(platforms, platform) == Own(platforms, platform) \/ platform \in ObjectPrototype

Send(status, platform, body) == [status |-> status, platform |-> platform, body |-> body]

\* proxyPrivateDownload answers with the Location the upstream gives for the
\* asset's api_url; without a token the Location is the asset's url.  An
\* inherited property has neither: rawUrl.replace and writeHead throw.
Deliver(platforms, platform, token) ==
  IF ~Own(platforms, platform) THEN Send(500, platform, "thrown")
  ELSE [status |-> 302, platform |-> platform,
        Location |-> IF token THEN [redirectOf |-> platforms[platform].api_url]
                     ELSE platforms[platform].url]

download(userAgent, isUpdate, snapshot, token) ==
  LET platform == IF userAgent.isMac /\ isUpdate THEN "darwin"
                  ELSE IF userAgent.isMac /\ ~isUpdate THEN "dmg"
                  ELSE IF userAgent.isWindows THEN "exe"
                  ELSE Undefined
  IN  IF \/ platform = Undefined
         \/ ~Has(snapshot, "platforms")
         \/ ~Found(snapshot["platforms"], platform)
      THEN Send(404, platform, "No download available for your platform!")
      ELSE Deliver(snapshot["platforms"], platform, token)

downloadPlatform(param, isUpdate, snapshot, token) ==
  LET named == IF param = "mac" /\ ~isUpdate THEN "dmg"
               ELSE IF param = "mac_arm64" /\ ~isUpdate THEN "dmg_arm64"
               ELSE param
      platform == checkAlias(named)
  IN  IF platform = NotRecognized
      THEN Send(500, platform, "The specified platform is not valid")
      ELSE IF ~Has(snapshot, "platforms") \/ ~Found(snapshot["platforms"], platform)
      THEN Send(404, platform, "No download available for your platform")
      ELSE Deliver(snapshot["platforms"], platform, token)

\* valid and differs are what semver's valid(version) and
\* compare(latest.version, version) !== 0 answer for the version of the request.
update(platformName, valid, differs, snapshot, token) ==
  LET platform == checkAlias(platformName)
  IN  IF ~valid THEN Send(500, Undefined, "version_invalid")
      ELSE IF platform = NotRecognized THEN Send(500, platform, "invalid_platform")
      ELSE IF ~Has(snapshot, "platforms") \/ ~Found(snapshot["platforms"], platform)
      THEN Send(204, platform, "")
      ELSE IF differs
      THEN [status |-> 200, platform |-> platform, name |-> snapshot["version"],
            url |-> IF token THEN [download |-> platformName, update |-> TRUE]
                    ELSE IF Own(snapshot["platforms"], platform)
                         THEN snapshot["platforms"][platform].url
                         ELSE [absent |-> TRUE]]
      ELSE Send(204, platform, "")

\* What loadCache hands a handler: the snapshot of a cold cache that could
\* not be filled, or a version with a platform map.
Snapshots ==
  {EmptyObject} \cup {Put(Put(EmptyObject, "version", "v2"), "platforms", m) : m \in PlatformMaps}

UserAgents == {[isMac |-> m, isWindows |-> w] : m, w \in BOOLEAN} \ {[isMac |-> TRUE, isWindows |-> TRUE]}

callVars == <<now, pre, upstream, latest, lastUpdate, pc, tries, relTries, rel, idx, yamlFiles>>

\* A call is drawn with its arguments; the cache is as the constructor left it.
CallInit ==
  /\ now = StartTime
  /\ pre = FALSE
  /\ upstream = <<>>
  /\ latest = EmptyObject
  /\ lastUpdate = 0
  /\ pc = [p \in Callers |-> "idle"]
  /\ tries = [p \in Callers |-> 0]
  /\ relTries = [p \in Callers |-> 0]
  /\ rel = [p \in Callers |-> NoRelease]
  /\ idx = [p \in Callers |-> 0]
  /\ yamlFiles = [p \in Callers |-> EmptyObject]
  /\ \/ \E fileName \in FileNames : input = [fn |-> "checkPlatform", fileName |-> fileName]
     \/ \E platform \in PlatformWords : input = [fn |-> "checkAlias", platform |-> platform]
     \/ \E platforms \in PlatformMaps, name \in ManifestNames, file \in ManifestEntries :
          input = [fn |-> "applyManifest", platforms |-> platforms, name |-> name, file |-> file]
     \/ \E userAgent \in UserAgents, isUpdate, token \in BOOLEAN, snapshot \in Snapshots :
          input = [fn |-> "download", userAgent |-> userAgent, isUpdate |-> isUpdate,
                   snapshot |-> snapshot, token |-> token]
     \/ \E platform \in PlatformWords, isUpdate, token \in BOOLEAN, snapshot \in Snapshots :
          input = [fn |-> "downloadPlatform", platform |-> platform, isUpdate |-> isUpdate,
                   snapshot |-> snapshot, token |-> token]
     \/ \E platform \in PlatformWords, valid, differs, token \in BOOLEAN, snapshot \in Snapshots :
          input = [fn |-> "update", platform |-> platform, valid |-> valid, differs |-> differs,
                   snapshot |-> snapshot, token |-> token]
  /\ output = NoReturn

CallCheckPlatform ==
  /\ input.fn = "checkPlatform"
  /\ ~output.returned
  /\ output' = [returned |-> TRUE, value |-> checkPlatform(input.fileName)]
  /\ UNCHANGED <<callVars, input>>

CallCheckAlias ==
  /\ input.fn = "checkAlias"
  /\ ~output.returned
  /\ output' = [returned |-> TRUE, value |-> checkAlias(input.platform)]
  /\ UNCHANGED <<callVars, input>>

\* The manifest part of refreshCache on a platform map and one manifest text
\* of one entry, held aside under the name of one of the three manifests.
CallApplyManifest ==
  /\ input.fn = "applyManifest"
  /\ ~output.returned
  /\ output' =
       [returned |-> TRUE,
        value |-> ApplyYamlFiles(Put(EmptyObject, "platforms", input.platforms),
                                 Put(EmptyObject, input.name, ManifestText(<<input.file>>)))["platforms"]]
  /\ UNCHANGED <<callVars, input>>

CallDownload ==
  /\ input.fn = "download"
  /\ ~output.returned
  /\ output' = [returned |-> TRUE,
                value |-> download(input.userAgent, input.isUpdate, input.snapshot, input.token)]
  /\ UNCHANGED <<callVars, input>>

CallDownloadPlatform ==
  /\ input.fn = "downloadPlatform"
  /\ ~output.returned
  /\ output' = [returned |-> TRUE,
                value |-> downloadPlatform(input.platform, input.isUpdate, input.snapshot, input.token)]
  /\ UNCHANGED <<callVars, input>>

CallUpdate ==
  /\ input.fn = "update"
  /\ ~output.returned
  /\ output' = [returned |-> TRUE,
                value |-> update(input.platform, input.valid, input.differs, input.snapshot,
                                 input.token)]
  /\ UNCHANGED <<callVars, input>>

CallNext ==
  \/ CallCheckPlatform
  \/ CallCheckAlias
  \/ CallApplyManifest
  \/ CallDownload
  \/ CallDownloadPlatform
  \/ CallUpdate

CallSpec == CallInit /\ [][CallNext]_vars

\* ------------------------------------------------------------------ claims
\* What the claims speak of, stated from the release and not from the loop.
RecognizedAssets(release) ==
  {i \in DOMAIN release.assets :
     /\ release.assets[i].name /= ReleasesName
     /\ ~EndsWithYml(release.assets[i].name)
     /\ checkPlatform(release.assets[i].name) /= NotRecognized}

KeysOf(release) == {checkPlatform(release.assets[i].name) : i \in RecognizedAssets(release)}

LastWithKey(release, k) ==
  CHOOSE i \in RecognizedAssets(release) :
    /\ checkPlatform(release.assets[i].name) = k
    /\ \A j \in RecognizedAssets(release) :
         checkPlatform(release.assets[j].name) = k => j <= i

\* The platform map of a release before any checksum is attached.
PlatformsOf(release) ==
  [k \in KeysOf(release) |-> PlatformAsset(release.assets[LastWithKey(release, k)])]

BaseFields == {"name", "api_url", "url", "content_type", "size"}

WithoutChecksums(platforms) ==
  [k \in DOMAIN platforms |-> [f \in BaseFields |-> platforms[k][f]]]

\* The checksum (and block-map size) a hosted manifest of the release gives
\* to the file called name, if any manifest of the release lists it.

HostedEntries(release, y) ==
  LET m == HostedManifest(DownloadUrl(release.tag_name, y))
  IN  {m.files[i] : i \in {j \in DOMAIN m.files : Readable(m.files[j])}}

ChecksumsOf(release, name) ==
  UNION {{[sha512 |-> e.sha512, blockMapSize |-> e.blockMapSize, linux |-> (y = LinuxYmlName)] :
            e \in {x \in HostedEntries(release, y) : x.url = name}} :
         y \in {z \in ManifestNames : \E i \in DOMAIN release.assets : release.assets[i].name = z}}

ChecksumsRight(release, entry) ==
  /\ Has(entry, "sha512") =>
       \E c \in ChecksumsOf(release, entry.name) :
         /\ entry.sha512 = c.sha512
         /\ (Has(entry, "blockMapSize") <=> c.linux)
         /\ Has(entry, "blockMapSize") => entry.blockMapSize = c.blockMapSize
  /\ Has(entry, "blockMapSize") => Has(entry, "sha512")

\* The platform map is the one of the release: every recognized asset of the
\* release under its key, nothing else, with no checksum of another release.
PlatformsWhole(lat, release) ==
  /\ Has(lat, "platforms")
  /\ WithoutChecksums(lat["platforms"]) = PlatformsOf(release)
  /\ \A k \in DOMAIN lat["platforms"] : ChecksumsRight(release, lat["platforms"][k])

Running == {p \in Callers : pc[p] \in InFlight}

\* The step is one of p's own: the call, a retry, or the end of an await.
Returns(p) == pc'[p] \in Returned /\ pc'[p] /= pc[p]

\* C1: at most one refresh cycle is in flight at any time; a caller that
\* finds a refresh running waits for it instead of starting a second one.
C1_SingleFlight == Cardinality(Running) <= 1

\* C2: whenever loadCache returns a snapshot with version T, its platform
\* map holds exactly the recognized assets of release T (with no checksum
\* but that release's): no caller receives a half-built snapshot.
C2_ReturnsWholeSnapshot ==
  [][\A p \in Callers :
       (Returns(p) /\ Has(latest', "version")) =>
         \E r \in Catalogue : r.tag_name = latest'["version"] /\ PlatformsWhole(latest', r)]_vars

\* The aggregate document and the manifest texts of the snapshot are those of
\* the release (or absent).
FilesOf(lat, release) ==
  Has(lat, "files") =>
    /\ Has(lat["files"], "RELEASES") =>
         \E i \in DOMAIN release.assets :
           /\ release.assets[i].name = ReleasesName
           /\ lat["files"]["RELEASES"] =
                cacheReleaseList(release.assets[i].browser_download_url,
                                HostedReleases(release.assets[i].browser_download_url))
    /\ Has(lat["files"], "yamlFiles") =>
         \A y \in DOMAIN lat["files"]["yamlFiles"] :
           /\ \E i \in DOMAIN release.assets : release.assets[i].name = y
           /\ lat["files"]["yamlFiles"][y] \in
                {HostedManifest(DownloadUrl(release.tag_name, y)), MalformedText}

FromOneRelease(lat, release) ==
  /\ lat["version"] = release.tag_name
  /\ lat["notes"] = release.body
  /\ lat["pub_date"] = release.published_at
  /\ PlatformsWhole(lat, release)
  /\ FilesOf(lat, release)

\* C3: between refresh cycles run one at a time, the snapshot is absent or
\* every field of it (version, notes, date, platform map, files.RELEASES,
\* files.yamlFiles) comes from the release whose tag is its version.
C3_SnapshotFromOneRelease ==
  Running = {} =>
    \/ latest = EmptyObject
    \/ /\ Has(latest, "version")
       /\ \E r \in Catalogue : FromOneRelease(latest, r)

\* Whose step it is.
CallStep(p) == pc[p] \in Settled /\ pc'[p] /= pc[p]
ListFailStep(p) == pc[p] = "list" /\ (tries'[p] = tries[p] + 1 \/ pc'[p] = "rejected")
ListOkStep(p) == pc[p] = "list" /\ pc'[p] \notin {"list", "rejected"}

\* C4: a refresh cycle whose release-list fetch fails on every attempt
\* leaves the snapshot unchanged and does not advance lastUpdate: neither
\* the call that starts it, nor a failed attempt, nor the abort changes them.
C4_FailedFetchKeepsSnapshot ==
  [][\A p \in Callers :
       (ListFailStep(p) \/ (CallStep(p) /\ pc'[p] = "list")) =>
         (latest' = latest /\ lastUpdate' = lastUpdate)]_vars

\* A cycle was aborted while the cache held a snapshot that is still stale.
C4_Witness ==
  \E p \in Callers :
    /\ pc[p] = "rejected"
    /\ tries[p] = Retries + 1
    /\ Has(latest, "version")
    /\ lastUpdate /= 0
    /\ now - lastUpdate > Ttl

\* C5: a loadCache call on a stale cache that holds a snapshot never fails:
\* when the release-list fetch uses up its retries the call still returns.
C5_StaleSnapshotServed ==
  [][\A p \in Callers :
       (pc[p] = "list" /\ Has(latest, "version") /\ lastUpdate /= 0) =>
         pc'[p] /= "rejected"]_vars

\* C6: a cycle that selects the release of the cached version ends at once
\* (no asset fetch is in flight after the step), leaves the snapshot as it is
\* and sets lastUpdate to the time of the step; any other cycle takes the
\* tag of the selected release as the version, so the next cycle against the
\* same list is of the first kind.
C6_ShortCircuit ==
  [][\A p \in Callers :
       (ListOkStep(p) /\ IsArray(upstream) /\ Applicable(FindRelease(upstream))) =>
         IF Get(latest, "version") = FindRelease(upstream).tag_name
           THEN /\ pc'[p] = "same"
                /\ latest' = latest
                /\ lastUpdate' = now
                /\ lastUpdate' >= lastUpdate
           ELSE /\ pc'[p] /= "same"
                /\ Get(latest', "version") = FindRelease(upstream).tag_name]_vars

\* A short-circuit on a finished snapshot that carries a checksum.
C6_Witness ==
  \E p \in Callers :
    /\ pc[p] = "same"
    /\ Running = {}
    /\ Get(latest, "version") = "v1"
    /\ Has(latest["platforms"], "darwin")
    /\ Has(latest["platforms"]["darwin"], "sha512")
    /\ lastUpdate = now

\* C7: loadCache starts a refresh cycle exactly when no refresh has completed
\* or more than the interval has passed since lastUpdate; otherwise it
\* returns without a fetch and leaves snapshot and lastUpdate alone.
Stale == lastUpdate = 0 \/ now - lastUpdate > Interval * MsPerMinute

C7_RefreshIffStale ==
  [][\A p \in Callers :
       CallStep(p) =>
         /\ pc'[p] = "list" <=> Stale
         /\ ~Stale => /\ pc'[p] = "fresh"
                      /\ tries'[p] = 0
                      /\ latest' = latest
                      /\ lastUpdate' = lastUpdate]_vars

\* A call exactly one interval after the last refresh is served as fresh.
C7_Witness ==
  \E p \in Callers :
    /\ pc[p] = "fresh"
    /\ lastUpdate /= 0
    /\ now - lastUpdate = Interval * MsPerMinute

\* C8 as claimed: the release list is fetched at most 3 times in a cycle.
C8_ThreeAttempts == \A p \in Callers : tries[p] <= 3

\* C8 as amended: the release list is fetched at most 1 + 3 times in a
\* cycle (3 retries after the first attempt); the cycle aborts only after
\* the fourth failure and the first success ends the retrying.
C8_FourAttempts ==
  \A p \in Callers :
    /\ tries[p] <= Retries + 1
    /\ pc[p] = "list" => tries[p] >= 1
    /\ pc[p] = "rejected" => tries[p] = Retries + 1
    /\ pc[p] \notin {"list", "rejected"} => tries[p] = 0

C8_Witness == \E p \in Callers : pc[p] = "rejected" /\ tries[p] = 4

\* C9: a refresh selects the first release of the list that is no draft and
\* whose prerelease flag equals the configured one; without such a release
\* nothing is cached, and no draft or mismatched release is ever cached.
Candidates(data) ==
  IF IsArray(data)
    THEN {i \in DOMAIN data : data[i].draft = FALSE /\ data[i].prerelease = pre}
    ELSE {}

First(S) == CHOOSE i \in S : \A j \in S : i <= j

C9_FirstMatchingRelease ==
  [][/\ \A p \in Callers :
          ListOkStep(p) =>
            IF Candidates(upstream) = {}
              THEN pc'[p] = "noop" /\ latest' = latest
              ELSE IF Has(upstream[First(Candidates(upstream))], "assets")
                THEN /\ pc'[p] /= "noop"
                     /\ Get(latest', "version") = upstream[First(Candidates(upstream))].tag_name
                ELSE pc'[p] = "noop" /\ latest' = latest
     /\ \A r \in Catalogue :
          r.tag_name = Get(latest', "version") => (~r.draft /\ r.prerelease = pre)]_vars

\* v1 is cached from a list where a draft and a prerelease come before it.
C9_Witness ==
  /\ pre = FALSE
  /\ upstream = <<D1, P1, R1>>
  /\ Get(latest, "version") = "v1"
  /\ \E p \in Callers : pc[p] = "done"

\* C10: once a cycle is past the release list nothing aborts it: whatever
\* the RELEASES and manifest fetches do, it ends at line 262 with every
\* recognized asset of its release in the platform map (the last one of a
\* key) and lastUpdate set; only the release-list fetch makes a call fail.
C10_EnrichmentNeverAborts ==
  [][\A p \in Callers :
       /\ pc[p] \in {"releases", "yml"} => pc'[p] \in {"releases", "yml", "done"}
       /\ (pc'[p] = "rejected" /\ pc[p] /= "rejected") => pc[p] = "list"
       /\ (pc[p] \in InFlight /\ pc'[p] = "done") =>
            /\ lastUpdate' = now
            /\ LET r == IF pc[p] = "list" THEN FindRelease(upstream) ELSE rel[p]
               IN  /\ Get(latest', "version") = r.tag_name
                   /\ WithoutChecksums(latest'["platforms"]) = PlatformsOf(r)]_vars

\* A cycle for v1 ended although the RELEASES file and the manifest failed.
C10_Witness ==
  \E p \in Callers :
    /\ pc[p] = "done"
    /\ Get(latest, "version") = "v1"
    /\ ~Has(latest["files"], "RELEASES")
    /\ ~Has(latest["files"], "yamlFiles")
    /\ DOMAIN latest["platforms"] = {"darwin"}
    /\ lastUpdate = now

\* C11: applying a manifest entry is an exact-match decoration.  The asset
\* whose name is the entry's file reference gets the entry's checksum, and the
\* block-map size when the manifest is the Linux one and only then; its other
\* fields, every other asset and the set of keys stay as they were; an entry
\* that names no asset changes nothing.
C11_ExactMatchDecoration ==
  (input.fn = "applyManifest" /\ output.returned) =>
    LET before == input.platforms
        after == output.value
        file == input.file
        linux == input.name = LinuxYmlName
        written == IF linux THEN {"sha512", "blockMapSize"} ELSE {"sha512"}
    IN  /\ DOMAIN after = DOMAIN before
        /\ \A k \in DOMAIN before :
             IF before[k].name = file.url
               THEN /\ DOMAIN after[k] = DOMAIN before[k] \cup written
                    /\ after[k]["sha512"] = file.sha512
                    /\ linux => after[k]["blockMapSize"] = file.blockMapSize
                    /\ \A f \in DOMAIN before[k] \ written : after[k][f] = before[k][f]
               ELSE after[k] = before[k]

\* The macOS manifest names the disk image of a map of three assets: the
\* image's earlier checksum is replaced and no block-map size is written.
C11_Witness ==
  /\ input.fn = "applyManifest"
  /\ input.name = MacYmlName
  /\ DOMAIN input.platforms = {"darwin", "linux_arm64", "win32"}
  /\ input.file.url = DmgName
  /\ Get(input.platforms["darwin"], "sha512") = "sha-earlier"
  /\ output.returned
  /\ output.value["darwin"]["sha512"] = input.file.sha512
  /\ ~Has(output.value["darwin"], "blockMapSize")

\* What the claims about the two classifiers speak of.
Called(fn) == input.fn = fn /\ output.returned
LiteralKeys == {AliasLiteral[i].key : i \in DOMAIN AliasLiteral}
ListOf(i) == {AliasLiteral[i].list[j] : j \in DOMAIN AliasLiteral[i].list}
LiteralAliases == UNION {ListOf(i) : i \in DOMAIN AliasLiteral}
TableKeys == LiteralKeys \cup {Arm64(k) : k \in LiteralKeys}

\* C12: the resolver is the identity on the keys of the table, the derived
\* _arm64 keys and the keys listed as another key's alias included, and
\* resolving a recognized token a second time gives the same key.
C12_IdentityOnKeys ==
  Called("checkAlias") =>
    /\ input.platform \in TableKeys => output.value = input.platform
    /\ output.value /= NotRecognized => checkAlias(output.value) = output.value

\* exe_arm64 is a key and also an alias in the list of win32_arm64.
C12_Witness ==
  /\ Called("checkAlias")
  /\ input.platform = "exe_arm64"
  /\ \E i \in DOMAIN aliases :
       aliases[i].key = "win32_arm64" /\ "exe_arm64" \in {aliases[i].list[j] : j \in DOMAIN aliases[i].list}
  /\ output.value = "exe_arm64"

\* C13 as stated: every alias of the table resolves to the key in whose list
\* it is declared, and the alias with the suffix to that key with the suffix.
C13_AliasToDeclaredOwner ==
  Called("checkAlias") =>
    \A i \in DOMAIN AliasLiteral : \A a \in ListOf(i) :
      /\ input.platform = a => output.value = AliasLiteral[i].key
      /\ input.platform = Arm64(a) => output.value = Arm64(AliasLiteral[i].key)

FirstOwner(a) ==
  AliasLiteral[CHOOSE i \in DOMAIN AliasLiteral :
                 a \in ListOf(i) /\ \A j \in 1..(i - 1) : a \notin ListOf(j)].key
Resolved(a) == IF a \in LiteralKeys THEN a ELSE FirstOwner(a)

\* C13: an alias that is itself a key resolves to itself; every other alias
\* resolves to the first key, in the order of the table, that lists it; the
\* alias with the suffix resolves to that result with the suffix.
C13_AliasToFirstOwner ==
  Called("checkAlias") =>
    \A a \in LiteralAliases :
      /\ input.platform = a => output.value = Resolved(a)
      /\ input.platform = Arm64(a) => output.value = Arm64(Resolved(a))

\* win_arm64 is listed by win32_arm64 and by exe_arm64; the first one wins.
C13_Witness ==
  /\ Called("checkAlias")
  /\ input.platform = "win_arm64"
  /\ output.value = "win32_arm64"

HasExtension(fileName, ext) ==
  /\ Len(fileName) >= 3
  /\ fileName[Len(fileName) - 1] = "."
  /\ fileName[Len(fileName)] = ext
EndsIn(fileName, ext) ==
  /\ Len(fileName) >= 2
  /\ fileName[Len(fileName) - 1] = "."
  /\ fileName[Len(fileName)] = ext
Marked(fileName) == \E i \in DOMAIN fileName : fileName[i] \in {"arm64", "aarch64"}
MacZip(fileName) ==
  /\ HasExtension(fileName, "zip")
  /\ \E i \in DOMAIN fileName : fileName[i] \in {"mac", "darwin"}
NoRule(fileName) ==
  /\ \A ext \in {"dmg", "AppImage", "exe", "rpm", "deb"} : ~HasExtension(fileName, ext)
  /\ ~MacZip(fileName)

\* C14: both classifiers answer false to what they do not know: the resolver
\* to a token that is neither a key nor an alias of the table, the normalizer
\* to a file name none of its rules matches.
C14_UnknownIsNotRecognized ==
  /\ (Called("checkAlias") /\ input.platform \notin TableWords) => output.value = NotRecognized
  /\ (Called("checkPlatform") /\ NoRule(input.fileName)) => output.value = NotRecognized

\* C15 as stated: every name ending in .dmg is darwin, every name ending in
\* .AppImage is linux, with the suffix iff the name has an architecture
\* marker, and a name ending in .appimage is not linux.
C15_EndsInDmgOrAppImage ==
  Called("checkPlatform") =>
    LET fileName == input.fileName
    IN  /\ EndsIn(fileName, "dmg") =>
             output.value = IF Marked(fileName) THEN "darwin_arm64" ELSE "darwin"
        /\ EndsIn(fileName, "AppImage") =>
             output.value = IF Marked(fileName) THEN "linux_arm64" ELSE "linux"
        /\ EndsIn(fileName, "appimage") => output.value \notin {"linux", "linux_arm64"}

\* C15: the same for the names whose extension is dmg or AppImage, an
\* extension being what follows the last dot of a name that has something
\* before that dot.
C15_DmgOrAppImageExtension ==
  Called("checkPlatform") =>
    LET fileName == input.fileName
    IN  /\ HasExtension(fileName, "dmg") =>
             output.value = IF Marked(fileName) THEN "darwin_arm64" ELSE "darwin"
        /\ HasExtension(fileName, "AppImage") =>
             output.value = IF Marked(fileName) THEN "linux_arm64" ELSE "linux"
        /\ EndsIn(fileName, "appimage") => output.value \notin {"linux", "linux_arm64"}

C15_Witness ==
  /\ Called("checkPlatform")
  /\ input.fileName = <<"aarch64", ".", "AppImage">>
  /\ output.value = "linux_arm64"

\* C16: a name with extension deb or rpm gets the extension as its key, with
\* the suffix iff the name has an architecture marker; a name with extension
\* exe gets win32 whatever markers it has.
C16_PackagesAndInstallers ==
  Called("checkPlatform") =>
    LET fileName == input.fileName
    IN  /\ HasExtension(fileName, "deb") =>
             output.value = IF Marked(fileName) THEN "deb_arm64" ELSE "deb"
        /\ HasExtension(fileName, "rpm") =>
             output.value = IF Marked(fileName) THEN "rpm_arm64" ELSE "rpm"
        /\ HasExtension(fileName, "exe") => output.value = "win32"

C16_Witness ==
  /\ Called("checkPlatform")
  /\ input.fileName = <<"arm64", ".", "exe">>
  /\ output.value = "win32"

\* The step with which the cycle of p reaches line 262, and the manifest
\* texts of the snapshot before and after a step.
DoneStep(p) == pc[p] \in InFlight /\ pc'[p] = "done"

TextsOf(lat) ==
  IF Has(lat, "files") /\ Has(lat["files"], "yamlFiles") THEN lat["files"]["yamlFiles"] ELSE EmptyObject

\* The texts the cycle that ends with this step has held aside: the texts of
\* the new snapshot, unless the cycle held none before its last fetch and
\* the texts of the snapshot are those of an earlier cycle still.
HeldAside(p) ==
  IF yamlFiles[p] /= EmptyObject \/ TextsOf(latest') /= TextsOf(latest)
    THEN TextsOf(latest')
    ELSE EmptyObject

ReadableEntries(text) == {text.files[i] : i \in {j \in DOMAIN text.files : Readable(text.files[j])}}
Fails(text) == text.kind = "malformed" \/ \E i \in DOMAIN text.files : ~Readable(text.files[i])
Named(platforms, file) == \E k \in DOMAIN platforms : platforms[k].name = file.url
Applied(platforms, file) ==
  \E k \in DOMAIN platforms :
    platforms[k].name = file.url /\ Get(platforms[k], "sha512") = file.sha512

\* C17: a manifest is applied wholly or not at all, and each one by itself.
\* When a cycle ends, of a manifest whose processing failed (malformed text,
\* or an entry that cannot be read) no entry has been applied to an asset,
\* and of every other manifest processed every entry naming an asset has.
C17_AllOrNothing ==
  [][\A p \in Callers :
       DoneStep(p) =>
         \A y \in DOMAIN HeldAside(p) \cap ManifestNames :
           IF Fails(HeldAside(p)[y])
             THEN \A file \in ReadableEntries(HeldAside(p)[y]) :
                    ~Applied(latest'["platforms"], file)
             ELSE \A file \in ReadableEntries(HeldAside(p)[y]) :
                    Named(latest'["platforms"], file) => Applied(latest'["platforms"], file)]_vars

\* C18: when a full refresh ends, every manifest text it has held aside,
\* whatever the name of the .yml asset, has been run against the new
\* platform map: each entry naming an asset has its checksum on that asset.
C18_EveryHeldTextApplied ==
  [][\A p \in Callers :
       DoneStep(p) =>
         \A y \in DOMAIN HeldAside(p) :
           \A file \in ReadableEntries(HeldAside(p)[y]) :
             Named(latest'["platforms"], file) => Applied(latest'["platforms"], file)]_vars

\* C19: a manifest whose fetch fails is skipped and the cycle goes on.  After
\* the await of a manifest fetch the body of a non-success answer is neither
\* among the texts the cycle holds nor among the texts of the snapshot, and
\* the cycle is at its next fetch or at its end.
C19_FailedManifestSkipped ==
  [][\A p \in Callers :
       (pc[p] = "yml" /\ (pc'[p] /= "yml" \/ idx'[p] /= idx[p])) =>
         /\ pc'[p] \in {"releases", "yml", "done"}
         /\ \A y \in DOMAIN yamlFiles'[p] : yamlFiles'[p][y] /= NotFoundText
         /\ \A y \in DOMAIN TextsOf(latest') : TextsOf(latest')[y] /= NotFoundText]_vars

\* No release of the answer can be cached: the answer is no array, has no
\* release that is not a draft with the configured prerelease flag, or the
\* first such release has no asset list.
NoneApplicable(data) ==
  \/ Candidates(data) = {}
  \/ ~Has(data[First(Candidates(data))], "assets")

\* C20: a cycle that finds no release to cache ends without a trace: the
\* snapshot and lastUpdate are as before and the cache is still stale, so
\* that the next call of loadCache, while nothing else happened, starts a
\* new cycle.
C20_NoReleaseIsNoop ==
  [][\A p \in Callers :
       /\ (ListOkStep(p) /\ NoneApplicable(upstream)) =>
            /\ pc'[p] = "noop"
            /\ latest' = latest
            /\ lastUpdate' = lastUpdate
            /\ lastUpdate' = 0 \/ now' - lastUpdate' > Interval * MsPerMinute
       /\ (CallStep(p) /\ \E q \in Callers : pc[q] = "noop" /\ \A o \in Callers : pc[o] \in {"idle", "noop"}) =>
            pc'[p] = "list"]_vars

\* After a cycle that met an answer that is no array ended as a no-op with
\* the stale snapshot of v1 kept, the next call has started a new cycle.
C20_Witness ==
  \E p, q \in Callers :
    /\ pc[p] = "noop"
    /\ pc[q] = "list"
    /\ upstream = NotAnArray
    /\ Get(latest, "version") = "v1"
    /\ lastUpdate /= 0
    /\ now - lastUpdate > Interval * MsPerMinute

\* The fetches a cycle can still issue, at most: the attempts left of the
\* fetch it waits for and, for every asset behind it, a fetch with all its
\* attempts.
Attempts == Retries + 1
MostAssets ==
  LET lens == {Len(r.assets) : r \in {x \in Catalogue : Has(x, "assets")}}
  IN  CHOOSE n \in lens : \A m \in lens : m <= n
Remaining(p) ==
  CASE pc[p] = "list" -> (Attempts - tries[p]) + 1 + MostAssets * Attempts
    [] pc[p] = "releases" -> (Attempts - relTries[p]) + 1 + (Len(rel[p].assets) - idx[p]) * Attempts
    [] pc[p] = "yml" -> 1 + (Len(rel[p].assets) - idx[p]) * Attempts
    [] OTHER -> 0

\* C21: a call of loadCache whose fetch attempts all end completes, whatever
\* the other caller does and even if the other caller's fetches never end.
\* The call runs at most one cycle: every answer or failure of a fetch
\* leaves the cycle with fewer fetches to issue, the number being bounded
\* by the attempts of a fetch and the number of assets of the release.
C21_CallCompletes ==
  /\ [][\A p \in Callers :
          (pc[p] \in InFlight /\ <<pc[p], tries[p], relTries[p], idx[p]>>
                                   /= <<pc'[p], tries'[p], relTries'[p], idx'[p]>>) =>
            /\ Remaining(p)' < Remaining(p)
            /\ Remaining(p) <= Attempts * (MostAssets + 1)]_vars
  /\ (pc["a"] \in InFlight) ~> (pc["a"] \in Settled)

\* The call of a has run its cycle to line 262 while the call of b, made
\* no later, still waits for the release list.
C21_Witness ==
  /\ pc["a"] = "done"
  /\ pc["b"] = "list"
  /\ tries["b"] = 1
  /\ Get(latest, "version") = "v1"
  /\ lastUpdate = now

\* The release an asset of the platform map was listed by, and the places of
\* the assets of a release that the normalizer gives the key k.
ListedBy(asset) == {r \in {x \in Catalogue : Has(x, "assets")} : r.tag_name = asset.url.tag}
PlacesOf(release, k) ==
  {i \in DOMAIN release.assets : checkPlatform(release.assets[i].name) = k}

\* C22: whenever no cycle is running, the platform map has under every key
\* one asset: an asset the normalizer gives that key, and of the assets of
\* its release with that key the last one in the listing order; no asset
\* named RELEASES or ending in .yml is in the map.
C22_LastAssetOfKey ==
  (Running = {} /\ Has(latest, "platforms")) =>
    \A k \in DOMAIN latest["platforms"] :
      LET asset == latest["platforms"][k]
      IN  /\ asset.name /= ReleasesName
          /\ ~EndsWithYml(asset.name)
          /\ checkPlatform(asset.name) = k
          /\ \A r \in ListedBy(asset) :
               /\ PlacesOf(r, k) /= {}
               /\ LET last == CHOOSE i \in PlacesOf(r, k) : \A j \in PlacesOf(r, k) : j <= i
                  IN  /\ asset.name = r.assets[last].name
                      /\ asset.url = r.assets[last].browser_download_url
          /\ ListedBy(asset) /= {}

\* The cycle of v2, which lists the mac zip, then a manifest it awaits, then
\* the disk image, has ended with the disk image under darwin.
C22_Witness ==
  \E p \in Callers :
    /\ pc[p] = "done"
    /\ Running = {}
    /\ Get(latest, "version") = "v2"
    /\ DOMAIN latest["platforms"] = {"darwin", "linux_arm64"}
    /\ latest["platforms"]["darwin"].name = DmgName
    /\ \E i, j \in DOMAIN R2.assets :
         i < j /\ R2.assets[i].name = MacZipName /\ R2.assets[j].name = DmgName

\* The keys the refresh can store an asset under: the normalizer's results.
StoredKeys == {checkPlatform(fileName) : fileName \in FileNames} \ {NotRecognized}
Handled == Called("download") \/ Called("downloadPlatform") \/ Called("update")
Indexed == Handled /\ output.value.platform \notin {Undefined, NotRecognized}
Carries(snapshot, ext) ==
  /\ Has(snapshot, "platforms")
  /\ \E k \in DOMAIN snapshot["platforms"] : HasExtension(snapshot["platforms"][k].name, ext)

\* C23: every key a handler indexes the platform map with (the hard-coded
\* keys of download, the resolver's results in downloadPlatform and update)
\* is the normalizer's result for at least one file name, and download finds
\* an asset whenever the snapshot carries one for the platform of the
\* request: a .dmg for a Mac, an .exe for Windows.
C23_IndexedKeysAreStored ==
  /\ Indexed => output.value.platform \in StoredKeys
  /\ (Called("download") /\ input.userAgent.isMac /\ Carries(input.snapshot, "dmg")) =>
       output.value.status = 302
  /\ (Called("download") /\ input.userAgent.isWindows /\ Carries(input.snapshot, "exe")) =>
       output.value.status = 302

====
